---- MODULE Spec2Model ----
(***************************************************************************)
(* Book inventory dashboards (andrea-mar/books_dataset).                   *)
(*                                                                         *)
(* SpecRisk models book_inventory_risk_dashboard.py: main() loads the      *)
(* table, classify_inventory_risk derives five ratios and risk_category,   *)
(* the risk tables are cut out of it and the footer is written.            *)
(*                                                                         *)
(* SpecInv models one run of the script book_inventory_dashboard.py:       *)
(* upload, load, sidebar filters, the selected report, footer.             *)
(*                                                                         *)
(* SpecMissing and SpecCorr model the two functions of                     *)
(* helper_functions.py, SpecBot the runs of main() of chat_bot.py and      *)
(* SpecAirflow generate_report of dk_airflow.py.                           *)
(*                                                                         *)
(* Numbers are IEEE floats in the program.  They are modelled as exact     *)
(* fractions <<n, d>> in lowest terms, with <<0, 0>> for NaN (a missing    *)
(* cell) and <<1, 0>> for +inf, so that x / 0 and NaN propagation behave   *)
(* as pandas does.  A table is a function from column name to a sequence   *)
(* of cells, one per row, and the column operations are element-wise as    *)
(* in pandas.                                                              *)
(***************************************************************************)
EXTENDS Integers, Sequences, FiniteSets, TLC

VARIABLES pc, df, high_risk_books, overstock_books,
          filtered_df, report_type, brand_health, reprint_candidates,
          redistribution_candidates, report_df, rendered,
          corr, corr_mask, missing_summary,
          uploaded_file, OPENAI_API_KEY, db, agent_db, remove_failed,
          excel

riskVars == <<high_risk_books, overstock_books>>

invVars == <<filtered_df, report_type, brand_health, reprint_candidates,
             redistribution_candidates, report_df>>

\* The variables of helper_functions.py (corr, corr_mask,
\* missing_summary), of chat_bot.py (uploaded_file to remove_failed) and of
\* dk_airflow.py (excel)
auxVars == <<corr, corr_mask, missing_summary,
             uploaded_file, OPENAI_API_KEY, db, agent_db, remove_failed,
             excel>>

vars == <<pc, df, riskVars, invVars, rendered, auxVars>>

-----------------------------------------------------------------------------
(* Float arithmetic                                                        *)

NaN == <<0, 0>>

Inf == <<1, 0>>

Abs(n) == IF n < 0 THEN -n ELSE n

RECURSIVE GCD(_, _)
GCD(a, b) == IF b = 0 THEN a ELSE GCD(b, a % b)

\* The float with value n/d: lowest terms, positive denominator.
Norm(n, d) ==
    IF d = 0 THEN (IF n = 0 THEN NaN ELSE Inf)
    ELSE LET g == GCD(Abs(n), Abs(d))
             s == IF d < 0 THEN -1 ELSE 1
         IN  <<(s * n) \div g, (s * d) \div g>>

R(n) == <<n, 1>>

IsNaN(x) == x = NaN

IsInf(x) == x = Inf

IsFinite(x) == x[2] # 0

\* x / y on floats: NaN propagates, a finite non-zero x over 0 is inf,
\* 0 / 0 is NaN.
Div(x, y) ==
    IF IsNaN(x) \/ IsNaN(y) THEN NaN
    ELSE IF IsInf(y) THEN (IF IsInf(x) THEN NaN ELSE R(0))
    ELSE IF IsInf(x) THEN Inf
    ELSE IF y[1] = 0 THEN (IF x[1] = 0 THEN NaN ELSE Inf)
    ELSE Norm(x[1] * y[2], x[2] * y[1])

Mul(x, y) ==
    IF IsNaN(x) \/ IsNaN(y) THEN NaN
    ELSE IF IsInf(x) \/ IsInf(y)
         THEN (IF x = R(0) \/ y = R(0) THEN NaN ELSE Inf)
    ELSE Norm(x[1] * y[1], x[2] * y[2])

Add(x, y) ==
    IF IsNaN(x) \/ IsNaN(y) THEN NaN
    ELSE IF IsInf(x) \/ IsInf(y) THEN Inf
    ELSE Norm(x[1] * y[2] + y[1] * x[2], x[2] * y[2])

\* x < y on floats: every comparison with NaN is False.
Lt(x, y) ==
    IF IsNaN(x) \/ IsNaN(y) THEN FALSE
    ELSE IF IsInf(x) THEN FALSE
    ELSE IF IsInf(y) THEN TRUE
    ELSE x[1] * y[2] < y[1] * x[2]

Gt(x, y) == Lt(y, x)

Le(x, y) == ~IsNaN(x) /\ ~IsNaN(y) /\ ~Lt(y, x)

Ge(x, y) == Le(y, x)

Sub(x, y) ==
    IF IsNaN(x) \/ IsNaN(y) THEN NaN
    ELSE IF IsInf(y) THEN (IF IsInf(x) THEN NaN ELSE <<-1, 0>>)
    ELSE IF IsInf(x) THEN Inf
    ELSE Norm(x[1] * y[2] - y[1] * x[2], x[2] * y[2])

-----------------------------------------------------------------------------
(* pandas / numpy column operations                                        *)

\* Mutant: every row is divided by the denominator of the first row.
SDiv_FirstRow(s, t) == [i \in DOMAIN s |-> Div(s[i], t[1])]

SDiv(s, t) == [i \in DOMAIN s |-> Div(s[i], t[i])]

SAdd(s, t) == [i \in DOMAIN s |-> Add(s[i], t[i])]

\* Mutant: no replacement, a zero denominator stays zero.
SReplace_None(s, a, b) == s

\* Mutant: a lower clip at b instead of the replacement of a.
SReplace_Floor(s, a, b) == [i \in DOMAIN s |-> IF Lt(s[i], b) THEN b ELSE s[i]]

\* Series.replace(a, b): cells equal to a become b, NaN stays NaN.
SReplace(s, a, b) == [i \in DOMAIN s |-> IF s[i] = a THEN b ELSE s[i]]

SSub(s, t) == [i \in DOMAIN s |-> Sub(s[i], t[i])]

\* series * scalar and series / scalar
SScale(s, c) == [i \in DOMAIN s |-> Mul(s[i], c)]

SOver(s, c) == [i \in DOMAIN s |-> Div(s[i], c)]

\* Series.clip(lower=lo): cells below lo become lo, NaN stays NaN.
SClipLower(s, lo) == [i \in DOMAIN s |-> IF Lt(s[i], lo) THEN lo ELSE s[i]]

\* Series.clip(upper=series)
SClipUpper(s, hi) == [i \in DOMAIN s |-> IF Gt(s[i], hi[i]) THEN hi[i] ELSE s[i]]

SLtS(s, t) == [i \in DOMAIN s |-> Lt(s[i], t[i])]

SGtS(s, t) == [i \in DOMAIN s |-> Gt(s[i], t[i])]

SNe(s, v) == [i \in DOMAIN s |-> s[i] # v]

SLt(s, c) == [i \in DOMAIN s |-> Lt(s[i], c)]

SGt(s, c) == [i \in DOMAIN s |-> Gt(s[i], c)]

SAnd(m, n) == [i \in DOMAIN m |-> m[i] /\ n[i]]

SOr(m, n) == [i \in DOMAIN m |-> m[i] \/ n[i]]

SEq(s, v) == [i \in DOMAIN s |-> s[i] = v]

\* Mutant: the default argument is dropped, unmatched rows get numpy's 0.
NpSelect_NoDefault(condlist, choicelist, default) ==
    [i \in DOMAIN condlist[1] |->
        IF \E k \in DOMAIN condlist : condlist[k][i]
        THEN choicelist[CHOOSE k \in DOMAIN condlist :
                            /\ condlist[k][i]
                            /\ \A j \in DOMAIN condlist : condlist[j][i] => k <= j]
        ELSE "0"]

\* Mutant: the last condition that is True wins.
NpSelect_LastMatch(condlist, choicelist, default) ==
    [i \in DOMAIN condlist[1] |->
        IF \E k \in DOMAIN condlist : condlist[k][i]
        THEN choicelist[CHOOSE k \in DOMAIN condlist :
                            /\ condlist[k][i]
                            /\ \A j \in DOMAIN condlist : condlist[j][i] => j <= k]
        ELSE default]

\* np.select(condlist, choicelist, default): per row, the choice of the
\* first condition that is True, else default.
NpSelect(condlist, choicelist, default) ==
    [i \in DOMAIN condlist[1] |->
        IF \E k \in DOMAIN condlist : condlist[k][i]
        THEN choicelist[CHOOSE k \in DOMAIN condlist :
                            /\ condlist[k][i]
                            /\ \A j \in DOMAIN condlist : condlist[j][i] => k <= j]
        ELSE default]

\* df[name] = series
SetCol(t, name, s) ==
    [c \in DOMAIN t \cup {name} |-> IF c = name THEN s ELSE t[c]]

NRows(t) == IF DOMAIN t = {} THEN 0 ELSE Len(t[CHOOSE c \in DOMAIN t : TRUE])

RECURSIVE KeptRows(_, _)
KeptRows(mask, i) ==
    IF i > Len(mask) THEN <<>>
    ELSE (IF mask[i] THEN <<i>> ELSE <<>>) \o KeptRows(mask, i + 1)

\* df[mask]: the rows whose mask cell is True, in table order.
BoolIndex(t, mask) ==
    LET k == KeptRows(mask, 1)
    IN  [c \in DOMAIN t |-> [j \in 1..Len(k) |-> t[c][k[j]]]]

NoFrame == [c \in {} |-> <<>>]

\* The row labels of a frame are kept as one more column under this name.
INDEX == "(index)"

Columns(t) == DOMAIN t \ {INDEX}

\* df[cols]: the named columns, row labels kept.
Project(t, cols) == [c \in cols \cup {INDEX} |-> t[c]]

\* The rows of t in the order p (p[j] is the old position of new row j).
Permute(t, p) == [c \in DOMAIN t |-> [j \in 1..Len(p) |-> t[c][p[j]]]]

\* The orders sort_values(key) may leave the rows in: keys ascending (or
\* descending), NaN keys last, rows with equal keys in any order.
SortedPerms(keys, ascending) ==
    LET n == Len(keys)
        InOrder(a, b) ==
            IF IsNaN(keys[a]) THEN IsNaN(keys[b])
            ELSE IF IsNaN(keys[b]) THEN TRUE
            ELSE IF ascending THEN ~Lt(keys[b], keys[a])
            ELSE ~Lt(keys[a], keys[b])
    IN  {p \in [1..n -> 1..n] :
            /\ \A a, b \in 1..n : a # b => p[a] # p[b]
            /\ \A a, b \in 1..n : a < b => InOrder(p[a], p[b])}

RECURSIVE SumSkipNa(_)
SumSkipNa(s) ==
    IF s = <<>> THEN R(0)
    ELSE IF IsNaN(s[1]) THEN SumSkipNa(Tail(s))
    ELSE Add(s[1], SumSkipNa(Tail(s)))

\* Series.mean(): NaN cells are skipped.
MeanSkipNa(s) ==
    LET kept == SelectSeq(s, LAMBDA x : ~IsNaN(x))
    IN  Div(SumSkipNa(kept), R(Len(kept)))

\* pd.cut(x, bins, labels) with the defaults right=True and
\* include_lowest=False: label k for bins[k] < x <= bins[k+1], no category
\* for any other value.
NoCategory == "nan"

Cut(x, bins, labels) ==
    IF \E k \in DOMAIN labels : Lt(bins[k], x) /\ Le(x, bins[k + 1])
    THEN labels[CHOOSE k \in DOMAIN labels : Lt(bins[k], x) /\ Le(x, bins[k + 1])]
    ELSE NoCategory

SCut(s, bins, labels) == [i \in DOMAIN s |-> Cut(s[i], bins, labels)]

-----------------------------------------------------------------------------
(* Column names                                                            *)

STOCK == "Retailer number of units in stock"

WAREHOUSE == "Current number of units in DK warehouse"

ORDERED == "Number of units reatiler has ordered from DK"

SALES_LW == "Retailer sales out last week"

FC_THIS == "Forecast sales for this week"

FC_4WK == "Forecast sales for next 4 weeks"

FC_12WK == "Forecast sales for next 12 weeks"

RiskInputCols == {STOCK, WAREHOUSE, ORDERED, SALES_LW, FC_THIS, FC_4WK, FC_12WK}

RiskCategories == {"high_stockout_risk", "overstocking_risk", "normal"}

-----------------------------------------------------------------------------
(* book_inventory_risk_dashboard.py                                        *)

\* Mutant: the total of stock and warehouse is written back to the stock
\* column before the ratios are taken.
DerivedMetrics_Accumulate(d) ==
    LET d0 == SetCol(d, STOCK, SAdd(d[STOCK], d[WAREHOUSE]))
        d1 == SetCol(d0, "weeks_until_stockout",
                     SDiv(d0[STOCK], SReplace(d0[FC_THIS], R(0), R(1))))
        d2 == SetCol(d1, "dk_warehouse_to_weekly_sales_ratio",
                     SDiv(d1[WAREHOUSE], SReplace(d1[SALES_LW], R(0), R(1))))
        d3 == SetCol(d2, "total_available_to_12wk_forecast",
                     SDiv(d2[STOCK], SReplace(d2[FC_12WK], R(0), R(1))))
        d4 == SetCol(d3, "stock_to_weekly_sales_ratio",
                     SDiv(d3[STOCK], SReplace(d3[SALES_LW], R(0), R(1))))
    IN  SetCol(d4, "ordered_vs_forecasted",
               SDiv(d4[ORDERED], SReplace(d4[FC_4WK], R(0), R(1))))

\* Mutant: the zero denominators are replaced in the input columns
\* themselves (replace(..., inplace=True)).
DerivedMetrics_InPlace(d) ==
    LET e1 == SetCol(d, FC_THIS, SReplace(d[FC_THIS], R(0), R(1)))
        e2 == SetCol(e1, SALES_LW, SReplace(e1[SALES_LW], R(0), R(1)))
        e3 == SetCol(e2, FC_12WK, SReplace(e2[FC_12WK], R(0), R(1)))
        e4 == SetCol(e3, FC_4WK, SReplace(e3[FC_4WK], R(0), R(1)))
        d1 == SetCol(e4, "weeks_until_stockout", SDiv(e4[STOCK], e4[FC_THIS]))
        d2 == SetCol(d1, "dk_warehouse_to_weekly_sales_ratio",
                     SDiv(d1[WAREHOUSE], d1[SALES_LW]))
        d3 == SetCol(d2, "total_available_to_12wk_forecast",
                     SDiv(SAdd(d2[STOCK], d2[WAREHOUSE]), d2[FC_12WK]))
        d4 == SetCol(d3, "stock_to_weekly_sales_ratio", SDiv(d3[STOCK], d3[SALES_LW]))
    IN  SetCol(d4, "ordered_vs_forecasted", SDiv(d4[ORDERED], d4[FC_4WK]))

\* lines 40-44: the five derived ratios
DerivedMetrics(d) ==
    LET d1 == SetCol(d, "weeks_until_stockout",
                     SDiv(d[STOCK], SReplace(d[FC_THIS], R(0), R(1))))
        d2 == SetCol(d1, "dk_warehouse_to_weekly_sales_ratio",
                     SDiv(d1[WAREHOUSE], SReplace(d1[SALES_LW], R(0), R(1))))
        d3 == SetCol(d2, "total_available_to_12wk_forecast",
                     SDiv(SAdd(d2[STOCK], d2[WAREHOUSE]),
                          SReplace(d2[FC_12WK], R(0), R(1))))
        d4 == SetCol(d3, "stock_to_weekly_sales_ratio",
                     SDiv(d3[STOCK], SReplace(d3[SALES_LW], R(0), R(1))))
    IN  SetCol(d4, "ordered_vs_forecasted",
               SDiv(d4[ORDERED], SReplace(d4[FC_4WK], R(0), R(1))))

\* Mutant: | in place of & in the stockout rule.
StockoutCondition_Or(d) ==
    SOr(SLt(d["weeks_until_stockout"], R(2)),
        SLt(d["dk_warehouse_to_weekly_sales_ratio"], R(4)))

\* line 49
StockoutCondition(d) ==
    SAnd(SLt(d["weeks_until_stockout"], R(2)),
         SLt(d["dk_warehouse_to_weekly_sales_ratio"], R(4)))

\* Mutant: & in place of | between the two overstocking tests.
OverstockingCondition_And(d) ==
    SAnd(SGt(d["total_available_to_12wk_forecast"], R(20)),
         SAnd(SGt(d["stock_to_weekly_sales_ratio"], R(12)),
              SGt(d["ordered_vs_forecasted"], <<3, 2>>)))

\* lines 52-53
OverstockingCondition(d) ==
    SOr(SGt(d["total_available_to_12wk_forecast"], R(20)),
        SAnd(SGt(d["stock_to_weekly_sales_ratio"], R(12)),
             SGt(d["ordered_vs_forecasted"], <<3, 2>>)))

classify_inventory_risk(d) ==
    LET m == DerivedMetrics(d)
        conditions == <<StockoutCondition(m), OverstockingCondition(m)>>
        choices == <<"high_stockout_risk", "overstocking_risk">>
    IN  SetCol(m, "risk_category", NpSelect(conditions, choices, "normal"))

-----------------------------------------------------------------------------
(* Input tables                                                            *)

MaxRows == 2

Half == <<1, 2>>

StockVals == {R(0), R(10), R(300), NaN}

WarehouseVals == {R(5), R(100), NaN}

OrderedVals == {R(0), R(100), NaN}

SalesVals == {R(0), R(20), R(50), NaN}

FcThisVals == {R(0), Half, R(10), R(200), NaN}

Fc4Vals == {R(0), R(40), NaN}

Fc12Vals == {R(0), R(10), R(100), NaN}

RiskRow(s, w, o, l, f1, f4, f12) ==
    [c \in RiskInputCols |->
        CASE c = STOCK -> s
          [] c = WAREHOUSE -> w
          [] c = ORDERED -> o
          [] c = SALES_LW -> l
          [] c = FC_THIS -> f1
          [] c = FC_4WK -> f4
          [] c = FC_12WK -> f12]

MissingCount(r) == Cardinality({c \in DOMAIN r : IsNaN(r[c])})

\* Rows of the spreadsheet: every combination of the values above with at
\* most one empty cell.
RiskRows ==
    {r \in {RiskRow(s, w, o, l, f1, f4, f12) :
                s \in StockVals, w \in WarehouseVals, o \in OrderedVals,
                l \in SalesVals, f1 \in FcThisVals, f4 \in Fc4Vals,
                f12 \in Fc12Vals} : MissingCount(r) <= 1}

\* The rows that fill the rest of a table.
FillerRows ==
    { RiskRow(R(10), R(5), R(0), R(20), R(10), R(40), R(100)),
      RiskRow(R(300), R(100), R(0), R(20), R(10), R(40), R(10)) }

ToFrame(rows) ==
    [c \in RiskInputCols |-> [i \in 1..Len(rows) |-> rows[i][c]]]

\* Tables of 1..MaxRows rows: one row is any of RiskRows, at any position,
\* the others are filler rows.
RiskTables ==
    {ToFrame([i \in 1..n |-> IF i = p THEN r ELSE o[i]]) :
        <<n, p, r, o>> \in
            {q \in (1..MaxRows) \X (1..MaxRows) \X RiskRows
                      \X [1..MaxRows -> FillerRows] : q[2] <= q[1]}}

-----------------------------------------------------------------------------
(* The variables of the other programs of the repository, which the two    *)
(* dashboards never touch.                                                 *)

NoFile == "(no file)"

\* st.file_uploader returned None
NoUploadedFile == [name |-> "None", table |-> "None"]

AuxIdle ==
    /\ corr = NoFrame
    /\ corr_mask = NoFrame
    /\ missing_summary = NoFrame
    /\ uploaded_file = NoUploadedFile
    /\ OPENAI_API_KEY = FALSE
    /\ db = NoFile
    /\ agent_db = NoFile
    /\ remove_failed = FALSE
    /\ excel = NoFrame

-----------------------------------------------------------------------------
(* main() of the risk dashboard                                            *)

InitRisk ==
    /\ pc = "start"
    /\ df = NoFrame
    /\ high_risk_books = NoFrame
    /\ overstock_books = NoFrame
    /\ filtered_df = NoFrame
    /\ report_type = "none"
    /\ brand_health = NoFrame
    /\ reprint_candidates = NoFrame
    /\ redistribution_candidates = NoFrame
    /\ report_df = NoFrame
    /\ rendered = {}
    /\ AuxIdle

\* line 181: df = load_data()
LoadData ==
    /\ pc = "start"
    /\ \E t \in RiskTables : df' = t
    /\ pc' = "loaded"
    /\ UNCHANGED <<auxVars, riskVars, invVars, rendered>>

\* line 182: df = classify_inventory_risk(df).  The function assigns its new
\* columns to the DataFrame object it is given and returns that object, so
\* df is the caller's table before and after the call.
ClassifyInventoryRisk ==
    /\ pc = "loaded"
    /\ df' = classify_inventory_risk(df)
    /\ pc' = "classified"
    /\ UNCHANGED <<auxVars, riskVars, invVars, rendered>>

\* lines 239 and 263: the two risk tables
RiskTabs ==
    /\ pc = "classified"
    /\ high_risk_books' = BoolIndex(df, SEq(df["risk_category"], "high_stockout_risk"))
    /\ overstock_books' = BoolIndex(df, SEq(df["risk_category"], "overstocking_risk"))
    /\ pc' = "tables"
    /\ UNCHANGED <<auxVars, df, invVars, rendered>>

\* lines 355-361
Footer ==
    /\ pc = "tables"
    /\ pc' = "done"
    /\ UNCHANGED <<auxVars, df, riskVars, invVars, rendered>>

NextRisk == LoadData \/ ClassifyInventoryRisk \/ RiskTabs \/ Footer

SpecRisk == InitRisk /\ [][NextRisk]_vars

Classified == pc \in {"classified", "tables", "done"}

Rows == 1..NRows(df)

-----------------------------------------------------------------------------
(* Properties of classify_inventory_risk                                   *)

Cell(c, i) == df[c][i]

Category(i) == df["risk_category"][i]

\* The two rules, read off the derived columns of row i.
Rule1(i) ==
    /\ Lt(Cell("weeks_until_stockout", i), R(2))
    /\ Lt(Cell("dk_warehouse_to_weekly_sales_ratio", i), R(4))

Rule2(i) ==
    \/ Gt(Cell("total_available_to_12wk_forecast", i), R(20))
    \/ /\ Gt(Cell("stock_to_weekly_sales_ratio", i), R(12))
       /\ Gt(Cell("ordered_vs_forecasted", i), <<3, 2>>)

HasMissing(i) == \E c \in RiskInputCols : IsNaN(Cell(c, i))

\* C1: after classification the risk_category column has one cell per row
\* and every cell is high_stockout_risk, overstocking_risk or normal.
Thm_C1 ==
    Classified =>
        /\ DOMAIN df["risk_category"] = Rows
        /\ \A i \in Rows : Category(i) \in RiskCategories

Wit_C1 ==
    /\ Classified
    /\ \E i, j \in Rows :
        /\ ~HasMissing(i) /\ ~HasMissing(j)
        /\ Category(i) = "normal"
        /\ Category(j) \in {"high_stockout_risk", "overstocking_risk"}

\* C2: a row whose ratios satisfy both the stockout rule and the
\* overstocking rule is labelled high_stockout_risk.
Thm_C2 ==
    Classified =>
        \A i \in Rows : (Rule1(i) /\ Rule2(i)) => Category(i) = "high_stockout_risk"

Wit_C2 ==
    /\ Classified
    /\ \E i \in Rows : Rule1(i) /\ Rule2(i) /\ Category(i) = "high_stockout_risk"

\* C3: a row is labelled high_stockout_risk exactly when weeks_until_stockout
\* < 2 and the warehouse-to-weekly-sales ratio < 4; stock 10, warehouse 5,
\* forecast this week 10, sales last week 20 gives 1.0, 0.25 and that label.
IsExampleC3(i) ==
    /\ Cell(STOCK, i) = R(10)
    /\ Cell(WAREHOUSE, i) = R(5)
    /\ Cell(FC_THIS, i) = R(10)
    /\ Cell(SALES_LW, i) = R(20)

Thm_C3 ==
    Classified =>
        \A i \in Rows :
            /\ (Category(i) = "high_stockout_risk") <=> Rule1(i)
            /\ IsExampleC3(i) =>
                /\ Cell("weeks_until_stockout", i) = R(1)
                /\ Cell("dk_warehouse_to_weekly_sales_ratio", i) = <<1, 4>>
                /\ Category(i) = "high_stockout_risk"

Wit_C3 ==
    /\ Classified
    /\ \E i, j \in Rows :
        /\ IsExampleC3(i)
        /\ Category(i) = "high_stockout_risk"
        /\ Lt(Cell("weeks_until_stockout", j), R(2))
        /\ ~Lt(Cell("dk_warehouse_to_weekly_sales_ratio", j), R(4))

\* C4: a row outside the stockout rule is labelled overstocking_risk exactly
\* when total_available_to_12wk_forecast > 20 or (stock_to_weekly_sales_ratio
\* > 12 and ordered_vs_forecasted > 1.5), and normal otherwise.
Thm_C4 ==
    Classified =>
        \A i \in Rows :
            ~Rule1(i) =>
                /\ (Category(i) = "overstocking_risk") <=> Rule2(i)
                /\ ~Rule2(i) => Category(i) = "normal"

Wit_C4 ==
    /\ Classified
    /\ \E i \in Rows :
        /\ ~Rule1(i)
        /\ ~Gt(Cell("total_available_to_12wk_forecast", i), R(20))
        /\ Rule2(i)
        /\ Category(i) = "overstocking_risk"

\* C5: a row with an empty required numeric cell gets no risk label.
Claim_C5 ==
    Classified =>
        \A i \in Rows : HasMissing(i) => Category(i) \notin RiskCategories

\* C6: with forecast_this_week = 0, weeks_until_stockout is units_in_stock
\* over 1: it equals units_in_stock, is never infinite, and is undefined
\* only where units_in_stock itself is empty.
Thm_C6 ==
    Classified =>
        \A i \in Rows :
            Cell(FC_THIS, i) = R(0) =>
                /\ Cell("weeks_until_stockout", i) = Cell(STOCK, i)
                /\ ~IsInf(Cell("weeks_until_stockout", i))
                /\ IsNaN(Cell("weeks_until_stockout", i)) => IsNaN(Cell(STOCK, i))

Wit_C6 ==
    /\ Classified
    /\ \E i \in Rows :
        /\ Cell(FC_THIS, i) = R(0)
        /\ Cell(STOCK, i) = R(10)
        /\ Cell("weeks_until_stockout", i) = R(10)

\* The five ratios: <<derived column, denominator column>>.
RatioCols ==
    { <<"weeks_until_stockout", FC_THIS>>,
      <<"dk_warehouse_to_weekly_sales_ratio", SALES_LW>>,
      <<"total_available_to_12wk_forecast", FC_12WK>>,
      <<"stock_to_weekly_sales_ratio", SALES_LW>>,
      <<"ordered_vs_forecasted", FC_4WK>> }

Numerator(name, i) ==
    CASE name = "weeks_until_stockout" -> Cell(STOCK, i)
      [] name = "dk_warehouse_to_weekly_sales_ratio" -> Cell(WAREHOUSE, i)
      [] name = "total_available_to_12wk_forecast" -> Add(Cell(STOCK, i), Cell(WAREHOUSE, i))
      [] name = "stock_to_weekly_sales_ratio" -> Cell(STOCK, i)
      [] name = "ordered_vs_forecasted" -> Cell(ORDERED, i)

FMax(x, y) == IF Lt(x, y) THEN y ELSE x

\* C7 as stated: every ratio is numerator / max(denominator, 1), fractional
\* denominators between 0 and 1 included.
Claim_C7 ==
    Classified =>
        \A i \in Rows : \A q \in RatioCols :
            ~IsNaN(Cell(q[2], i)) =>
                Cell(q[1], i) = Div(Numerator(q[1], i), FMax(Cell(q[2], i), R(1)))

\* C7 amended: with numerator and denominator present, a ratio is the
\* numerator itself when the denominator is exactly 0 and numerator /
\* denominator for every other denominator (ratio * denominator = numerator),
\* a denominator strictly between 0 and 1 included.
Thm_C7 ==
    Classified =>
        \A i \in Rows : \A q \in RatioCols :
            (~IsNaN(Cell(q[2], i)) /\ ~IsNaN(Numerator(q[1], i))) =>
                /\ Cell(q[2], i) = R(0) => Cell(q[1], i) = Numerator(q[1], i)
                /\ Cell(q[2], i) # R(0) =>
                       Mul(Cell(q[1], i), Cell(q[2], i)) = Numerator(q[1], i)

Wit_C7 ==
    /\ Classified
    /\ \E i \in Rows :
        /\ Cell(FC_THIS, i) = Half
        /\ Cell(STOCK, i) = R(10)
        /\ Cell("weeks_until_stockout", i) = R(20)

-----------------------------------------------------------------------------
(* book_inventory_dashboard.py: the uploaded table                         *)

BRAND == "Brand"

PRINT_STATUS == "Print status"

PUB_DATE == "Pub Date"

ISBN == "ISBN"

REPRINT_DATE == "Reprint Date"

REPRINT_QTY == "Reprint Quantity"

\* Dates are day numbers; NaT is the empty date cell.
NaT == -1

\* A date cell holding text that pd.to_datetime cannot parse.
BadDate == -2

\* Brands in sorted() order.
Brands == <<"DK Children", "DK Travel">>

RequiredCols ==
    {BRAND, PRINT_STATUS, PUB_DATE, STOCK, WAREHOUSE, FC_THIS, FC_4WK, FC_12WK}

OptionalCols == {REPRINT_DATE, REPRINT_QTY}

InvRow(b, st, pd, s, w, f1, f4, f12, rd, rq) ==
    [c \in RequiredCols \cup OptionalCols |->
        CASE c = BRAND -> b
          [] c = PRINT_STATUS -> st
          [] c = PUB_DATE -> pd
          [] c = STOCK -> s
          [] c = WAREHOUSE -> w
          [] c = FC_THIS -> f1
          [] c = FC_4WK -> f4
          [] c = FC_12WK -> f12
          [] c = REPRINT_DATE -> rd
          [] c = REPRINT_QTY -> rq]

InvRows ==
    {InvRow("DK Children", st, 1, s, w, f1, f4, R(60), NaT, NaN) :
        st \in {"In Print", "Out of Print"}, s \in {R(0), R(20), R(50)},
        w \in {R(20), R(100)}, f1 \in {R(0), R(1), R(5)}, f4 \in {R(0), R(40)}}
    \cup
    \* rows with a small 12-week forecast or a mid-size warehouse stock
    {InvRow("DK Children", "In Print", 1, s, w, R(1), R(40), R(20), NaT, NaN) :
        s \in {R(0), R(50)}, w \in {R(20), R(50)}}
    \cup
    \* a row whose Pub Date cell is not a date
    {InvRow("DK Children", "In Print", BadDate, R(50), R(20), R(1), R(40), R(60), NaT, NaN)}

InvFillerRows ==
    { InvRow("DK Travel", "In Print", 2, R(20), R(100), R(5), R(0), R(60), 9, R(500)),
      InvRow("DK Children", "Out of Print", 1, R(50), R(20), R(1), R(40), R(60), NaT, NaN) }

\* pd.read_excel: the rows under a RangeIndex, ISBN cells distinct; the
\* optional columns are present or not.
InvFrame(rows, withOptional) ==
    [c \in (RequiredCols \cup {ISBN, INDEX}
              \cup (IF withOptional THEN OptionalCols ELSE {})) |->
        [i \in 1..Len(rows) |->
            CASE c = INDEX -> i - 1
              [] c = ISBN -> R(100 + i)
              [] OTHER -> rows[i][c]]]

InvTables ==
    {InvFrame([i \in 1..q[1] |-> IF i = q[2] THEN q[3] ELSE q[4][i]], q[5]) :
        q \in {x \in (1..MaxRows) \X (1..MaxRows) \X InvRows
                      \X [1..MaxRows -> InvFillerRows] \X BOOLEAN : x[2] <= x[1]}}

ReportTypes ==
    {"Overview", "Inventory Health", "Sales Forecast", "Stock Replenishment",
     "Custom Report"}

CellSet(t, c) == {t[c][i] : i \in DOMAIN t[c]}

\* int(x)
PyInt(x) == x[1] \div x[2]

-----------------------------------------------------------------------------
(* book_inventory_dashboard.py: the script                                 *)

InitInv ==
    /\ pc = "start"
    /\ df = NoFrame
    /\ high_risk_books = NoFrame
    /\ overstock_books = NoFrame
    /\ filtered_df = NoFrame
    /\ report_type = "none"
    /\ brand_health = NoFrame
    /\ reprint_candidates = NoFrame
    /\ redistribution_candidates = NoFrame
    /\ report_df = NoFrame
    /\ rendered = {}
    /\ AuxIdle

\* lines 47-49: nothing uploaded
NoUpload ==
    /\ pc = "start"
    /\ rendered' = rendered \cup {"info: upload a file"}
    /\ pc' = "stopped"
    /\ UNCHANGED <<auxVars, df, riskVars, invVars>>

\* lines 44-46: read_excel raises
LoadError ==
    /\ pc = "start"
    /\ rendered' = rendered \cup {"error: loading"}
    /\ pc' = "stopped"
    /\ UNCHANGED <<auxVars, df, riskVars, invVars>>

HasBadDate(t) == PUB_DATE \in DOMAIN t /\ BadDate \in CellSet(t, PUB_DATE)

\* lines 33-43: the table is read and its date columns converted.
\* pd.to_datetime raises on a cell it cannot parse; the bare except shows
\* one warning and the Pub Date column stays as it was read.
LoadExcel ==
    /\ pc = "start"
    /\ \E t \in InvTables :
        /\ df' = t
        /\ rendered' = IF HasBadDate(t)
                       THEN rendered \cup {"warning: date conversion"}
                       ELSE rendered
    /\ pc' = "loaded"
    /\ UNCHANGED <<auxVars, riskVars, invVars>>

\* lines 79-86
FilterMask(t, selected_brands, date_range, print_status_options, min_stock, max_stock) ==
    [i \in 1..NRows(t) |->
        /\ t[BRAND][i] \in selected_brands
        /\ t[PUB_DATE][i] # NaT
        /\ t[PUB_DATE][i] >= date_range[1]
        /\ t[PUB_DATE][i] <= date_range[2]
        /\ t[PRINT_STATUS][i] \in print_status_options
        /\ Ge(t[STOCK][i], R(min_stock))
        /\ Le(t[STOCK][i], R(max_stock))]

\* lines 60-63: on a Pub Date column that was not converted,
\* df['Pub Date'].min().date() raises and the run ends there.
DateInputError ==
    /\ pc = "loaded"
    /\ HasBadDate(df)
    /\ rendered' = rendered \cup {"exception: Pub Date"}
    /\ pc' = "crashed"
    /\ UNCHANGED <<auxVars, df, riskVars, invVars>>

\* lines 54-96: the sidebar selections, the filtered table, the report type
ApplyFilters ==
    /\ pc = "loaded"
    /\ ~HasBadDate(df)
    /\ \E selected_brands \in SUBSET CellSet(df, BRAND),
          print_status_options \in SUBSET CellSet(df, PRINT_STATUS),
          d1, d2 \in CellSet(df, PUB_DATE),
          s1, s2 \in CellSet(df, STOCK) :
        /\ d1 <= d2
        /\ PyInt(s1) <= PyInt(s2)
        /\ filtered_df' = BoolIndex(df, FilterMask(df, selected_brands, <<d1, d2>>,
                                        print_status_options, PyInt(s1), PyInt(s2)))
    /\ report_type' \in ReportTypes
    /\ UNCHANGED rendered
    /\ pc' = "filtered"
    /\ UNCHANGED <<auxVars, df, riskVars, brand_health, reprint_candidates,
                   redistribution_candidates, report_df>>

\* lines 99-101
EmptyGuard ==
    /\ pc = "filtered"
    /\ NRows(filtered_df) = 0
    /\ rendered' = rendered \cup {"warning: no data"}
    /\ pc' = "stopped"
    /\ UNCHANGED <<auxVars, df, riskVars, invVars>>

\* lines 104-174: the Overview report adds the Pub Month column
PubMonth(d) == IF d = NaT THEN NaT ELSE d \div 31

ReportOverview ==
    /\ pc = "filtered"
    /\ NRows(filtered_df) > 0
    /\ report_type = "Overview"
    /\ filtered_df' = SetCol(filtered_df, "Pub Month",
                             [i \in 1..NRows(filtered_df) |-> PubMonth(filtered_df[PUB_DATE][i])])
    /\ rendered' = rendered \cup {"Overview"}
    /\ pc' = "footer"
    /\ UNCHANGED <<auxVars, df, riskVars, report_type, brand_health, reprint_candidates,
                   redistribution_candidates, report_df>>

wos_bins == <<R(0), R(4), R(8), R(12), R(16), R(20), R(24), Inf>>

wos_labels ==
    <<"0-4 weeks", "4-8 weeks", "8-12 weeks", "12-16 weeks", "16-20 weeks",
      "20-24 weeks", "24+ weeks">>

Tenth == <<1, 10>>

\* line 181
CalculatedWOS(t) == SDiv(t[STOCK], SClipLower(t[FC_THIS], Tenth))

\* lines 212-220: groupby('Brand').agg(...) and the brand coverage ratio
GroupKeys(t) == SelectSeq(Brands, LAMBDA b : b \in CellSet(t, BRAND))

BrandHealth(t) ==
    LET keys == GroupKeys(t)
        Grp(k) == BoolIndex(t, SEq(t[BRAND], keys[k]))
        n == Len(keys)
        total == [k \in 1..n |-> SumSkipNa(Grp(k)[STOCK])]
        fc == [k \in 1..n |-> SumSkipNa(Grp(k)[FC_4WK])]
    IN  [c \in {INDEX, "Brand", "Avg WOS", "Total Stock", "Forecast 4-Week Sales",
                "Title Count", "Stock Coverage Ratio"} |->
            CASE c = INDEX -> [k \in 1..n |-> k - 1]
              [] c = "Brand" -> keys
              [] c = "Avg WOS" -> [k \in 1..n |-> MeanSkipNa(Grp(k)["Calculated WOS"])]
              [] c = "Total Stock" -> total
              [] c = "Forecast 4-Week Sales" -> fc
              [] c = "Title Count" -> [k \in 1..n |-> NRows(Grp(k))]
              [] c = "Stock Coverage Ratio" -> SDiv(total, fc)]

\* lines 177-260: the Inventory Health report
ReportInventoryHealth ==
    /\ pc = "filtered"
    /\ NRows(filtered_df) > 0
    /\ report_type = "Inventory Health"
    /\ LET f1 == SetCol(filtered_df, "Calculated WOS", CalculatedWOS(filtered_df))
           f2 == SetCol(f1, "WOS Category", SCut(f1["Calculated WOS"], wos_bins, wos_labels))
           bh == BrandHealth(f2)
       IN  /\ filtered_df' = f2
           /\ \E p \in SortedPerms(bh["Avg WOS"], FALSE) : brand_health' = Permute(bh, p)
    /\ rendered' = rendered \cup {"Inventory Health"}
    /\ pc' = "footer"
    /\ UNCHANGED <<auxVars, df, riskVars, report_type, reprint_candidates,
                   redistribution_candidates, report_df>>

\* lines 327-335: the Sales Forecast report adds the 12-week coverage
coverage_buckets ==
    <<"Under-stocked (<4 weeks)", "Balanced (4-12 weeks)", "Over-stocked (>12 weeks)">>

StockCoverageWeeks(t) ==
    SDiv(t[STOCK], SClipLower(SOver(t[FC_12WK], R(12)), Tenth))

ReportSalesForecast ==
    /\ pc = "filtered"
    /\ NRows(filtered_df) > 0
    /\ report_type = "Sales Forecast"
    /\ LET f1 == SetCol(filtered_df, "Stock Coverage (weeks)", StockCoverageWeeks(filtered_df))
       IN  filtered_df' = SetCol(f1, "Coverage Category",
                                 SCut(f1["Stock Coverage (weeks)"],
                                      <<R(0), R(4), R(12), Inf>>, coverage_buckets))
    /\ rendered' = rendered \cup {"Sales Forecast"}
    /\ pc' = "footer"
    /\ UNCHANGED <<auxVars, df, riskVars, report_type, brand_health, reprint_candidates,
                   redistribution_candidates, report_df>>

\* lines 355-356
WeeksCoverage(t) == SDiv(t[STOCK], SClipLower(SOver(t[FC_4WK], R(4)), Tenth))

\* Mutant: the print status test is left out.
ReprintMask_AnyStatus(t) ==
    SAnd(SLt(t["Weeks Coverage"], R(6)),
         SLtS(t[WAREHOUSE], t[FC_4WK]))

\* lines 362-364
ReprintMask(t) ==
    SAnd(SAnd(SLt(t["Weeks Coverage"], R(6)),
              SLtS(t[WAREHOUSE], t[FC_4WK])),
         SNe(t[PRINT_STATUS], "Out of Print"))

\* Mutant: the clip at zero is left out.
RecommendedReprint_NoClip(t) ==
    SSub(SSub(SScale(t[FC_12WK], <<3, 2>>), t[STOCK]), t[WAREHOUSE])

\* lines 369-373
RecommendedReprint(t) ==
    SClipLower(SSub(SSub(SScale(t[FC_12WK], <<3, 2>>), t[STOCK]), t[WAREHOUSE]), R(0))

\* lines 355-384: Weeks Coverage and the reprint candidates
ReprintCandidates ==
    /\ pc = "filtered"
    /\ NRows(filtered_df) > 0
    /\ report_type = "Stock Replenishment"
    /\ LET f1 == SetCol(filtered_df, "Weeks Coverage", WeeksCoverage(filtered_df))
           rc == BoolIndex(f1, ReprintMask(f1))
       IN  /\ filtered_df' = f1
           /\ \E p \in SortedPerms(rc["Weeks Coverage"], TRUE) :
                LET sorted == Permute(rc, p)
                IN  reprint_candidates' =
                        IF NRows(sorted) > 0
                        THEN SetCol(sorted, "Recommended Reprint", RecommendedReprint(sorted))
                        ELSE sorted
    /\ rendered' = rendered \cup {"Stock Replenishment"}
    /\ pc' = "redistribution"
    /\ UNCHANGED <<auxVars, df, riskVars, report_type, brand_health,
                   redistribution_candidates, report_df>>

\* Mutant: the print status test of the reprint rule is applied here too.
RedistributionMask_InPrint(t) ==
    SAnd(SAnd(SLt(t["Weeks Coverage"], R(8)),
              SGtS(t[WAREHOUSE], SScale(t[FC_4WK], <<1, 2>>))),
         SNe(t[PRINT_STATUS], "Out of Print"))

\* lines 390-391
RedistributionMask(t) ==
    SAnd(SLt(t["Weeks Coverage"], R(8)),
         SGtS(t[WAREHOUSE], SScale(t[FC_4WK], <<1, 2>>)))

\* Mutant: the clip at the warehouse stock is left out.
RecommendedTransfer_NoUpper(t) ==
    SClipLower(SSub(SScale(t[FC_4WK], R(2)), t[STOCK]), R(0))

\* lines 395-398
RecommendedTransfer(t) ==
    SClipUpper(SClipLower(SSub(SScale(t[FC_4WK], R(2)), t[STOCK]), R(0)), t[WAREHOUSE])

\* lines 389-409: the redistribution candidates
RedistributionCandidates ==
    /\ pc = "redistribution"
    /\ LET rc == BoolIndex(filtered_df, RedistributionMask(filtered_df))
       IN  \E p \in SortedPerms(rc["Weeks Coverage"], TRUE) :
                LET sorted == Permute(rc, p)
                IN  redistribution_candidates' =
                        IF NRows(sorted) > 0
                        THEN SetCol(sorted, "Recommended Transfer", RecommendedTransfer(sorted))
                        ELSE sorted
    /\ UNCHANGED rendered
    /\ pc' = "scheduled"
    /\ UNCHANGED <<auxVars, df, riskVars, filtered_df, report_type, brand_health,
                   reprint_candidates, report_df>>

\* lines 412-424: filtered_df['Reprint Date'] raises KeyError when the table
\* has no such column, and the run ends there.
ScheduledReprints ==
    /\ pc = "scheduled"
    /\ rendered' = IF REPRINT_DATE \in Columns(filtered_df)
                   THEN rendered
                   ELSE rendered \cup {"exception: KeyError 'Reprint Date'"}
    /\ pc' = IF REPRINT_DATE \in Columns(filtered_df) THEN "footer" ELSE "crashed"
    /\ UNCHANGED <<auxVars, df, riskVars, invVars>>

\* lines 437-438 (the columns of the default selection that the model keeps)
DefaultColumns == {ISBN, BRAND, PUB_DATE, STOCK, WAREHOUSE, FC_4WK}

\* line 464
WeeksOfSupply(t) == SDiv(t[STOCK], SClipLower(t[FC_THIS], Tenth))

\* line 467
CoverageRatio4Wk(t) == SDiv(t[STOCK], t[FC_4WK])

\* Mutant: the multiplier 1.5 of the Stock Replenishment report is used.
ReprintRecommendation_15(t) ==
    SClipLower(SSub(SSub(SScale(t[FC_12WK], <<3, 2>>), t[STOCK]), t[WAREHOUSE]), R(0))

\* lines 470-474
ReprintRecommendation(t) ==
    SClipLower(SSub(SSub(SScale(t[FC_12WK], <<6, 5>>), t[STOCK]), t[WAREHOUSE]), R(0))

\* lines 459-474: the report table and its calculated fields
BuildReport(t, selected_columns, add_wos, add_coverage_ratio, add_reprint_recommendation) ==
    LET r0 == Project(t, selected_columns)
        r1 == IF add_wos /\ STOCK \in selected_columns /\ FC_THIS \in selected_columns
              THEN SetCol(r0, "Weeks of Supply", WeeksOfSupply(r0)) ELSE r0
        r2 == IF add_coverage_ratio /\ STOCK \in selected_columns /\ FC_4WK \in selected_columns
              THEN SetCol(r1, "4-Week Coverage Ratio", CoverageRatio4Wk(r1)) ELSE r1
    IN  IF /\ add_reprint_recommendation
           /\ STOCK \in selected_columns
           /\ WAREHOUSE \in selected_columns
           /\ FC_12WK \in selected_columns
        THEN SetCol(r2, "Reprint Recommendation", ReprintRecommendation(r2)) ELSE r2

\* lines 427-556: the Custom Report
CustomReport ==
    /\ pc = "filtered"
    /\ NRows(filtered_df) > 0
    /\ report_type = "Custom Report"
    /\ \E selected_columns \in {DefaultColumns, Columns(filtered_df), {}},
          add_wos, add_coverage_ratio, add_reprint_recommendation, sort_ascending \in BOOLEAN :
        IF selected_columns # {}
        THEN \E sort_column \in selected_columns \cap {ISBN, STOCK} :
                LET r == BuildReport(filtered_df, selected_columns, add_wos,
                                     add_coverage_ratio, add_reprint_recommendation)
                IN  \E p \in SortedPerms(r[sort_column], sort_ascending) :
                        report_df' = Permute(r, p)
        ELSE report_df' = report_df
    /\ rendered' = rendered \cup {"Custom Report"}
    /\ pc' = "footer"
    /\ UNCHANGED <<auxVars, df, riskVars, filtered_df, report_type, brand_health,
                   reprint_candidates, redistribution_candidates>>

\* lines 558-560
InvFooter ==
    /\ pc = "footer"
    /\ rendered' = rendered \cup {"footer"}
    /\ pc' = "done"
    /\ UNCHANGED <<auxVars, df, riskVars, invVars>>

NextInv ==
    \/ NoUpload \/ LoadError \/ LoadExcel \/ DateInputError \/ ApplyFilters
    \/ EmptyGuard
    \/ ReportOverview \/ ReportInventoryHealth \/ ReportSalesForecast
    \/ ReprintCandidates \/ RedistributionCandidates \/ ScheduledReprints
    \/ CustomReport \/ InvFooter

SpecInv == InitInv /\ [][NextInv]_vars

-----------------------------------------------------------------------------
(* Properties of the inventory dashboard                                   *)

\* The derived ratio columns: <<table, column>>.
DerivedRatioCells ==
    LET Cells(t, c) == IF c \in DOMAIN t THEN CellSet(t, c) ELSE {}
    IN  Cells(filtered_df, "Calculated WOS")
        \cup Cells(filtered_df, "Stock Coverage (weeks)")
        \cup Cells(filtered_df, "Weeks Coverage")
        \cup Cells(report_df, "Weeks of Supply")
        \cup Cells(report_df, "4-Week Coverage Ratio")
        \cup Cells(brand_health, "Stock Coverage Ratio")

\* C8: every derived ratio of the dashboard is a finite number (a zero
\* denominator was replaced by a positive floor), never inf or NaN.
Claim_C8 == \A x \in DerivedRatioCells : IsFinite(x)

HealthDone == "Inventory Health" \in rendered

\* The bucket of the half-open intervals [0,4) [4,8) ... [24,inf).
RightOpenBucket(x) ==
    IF \E k \in DOMAIN wos_labels : Le(wos_bins[k], x) /\ Lt(x, wos_bins[k + 1])
    THEN wos_labels[CHOOSE k \in DOMAIN wos_labels :
                        Le(wos_bins[k], x) /\ Lt(x, wos_bins[k + 1])]
    ELSE NoCategory

\* C9: every non-negative Calculated WOS (0 included) is in exactly one of
\* the seven buckets, and a boundary value is in the upper bucket.
Claim_C9 ==
    HealthDone =>
        \A i \in 1..NRows(filtered_df) :
            /\ filtered_df["WOS Category"][i] \in {wos_labels[k] : k \in DOMAIN wos_labels}
            /\ filtered_df["WOS Category"][i] = RightOpenBucket(filtered_df["Calculated WOS"][i])

ReplenishmentDone == "Stock Replenishment" \in rendered

\* The reprint rule of row i of the filtered table, from its input cells.
ReprintRule(i) ==
    /\ Lt(Div(filtered_df[STOCK][i], FMax(Div(filtered_df[FC_4WK][i], R(4)), Tenth)), R(6))
    /\ Lt(filtered_df[WAREHOUSE][i], filtered_df[FC_4WK][i])
    /\ filtered_df[PRINT_STATUS][i] # "Out of Print"

IsExampleC10(i) ==
    /\ filtered_df[STOCK][i] = R(50)
    /\ filtered_df[WAREHOUSE][i] = R(20)
    /\ filtered_df[FC_4WK][i] = R(40)
    /\ filtered_df[PRINT_STATUS][i] = "In Print"

IsReprintCandidate(i) == filtered_df[INDEX][i] \in CellSet(reprint_candidates, INDEX)

\* C10: a row of the filtered table is a reprint candidate exactly when
\* stock / max(forecast_4wk / 4, 0.1) < 6, warehouse < forecast_4wk and the
\* print status is not 'Out of Print'; each candidate is listed once; stock
\* 50, warehouse 20, forecast_4wk 40, 'In Print' qualifies with coverage 5.
Thm_C10 ==
    ReplenishmentDone =>
        /\ \A i \in 1..NRows(filtered_df) :
            /\ IsReprintCandidate(i) <=> ReprintRule(i)
            /\ IsExampleC10(i) =>
                (filtered_df["Weeks Coverage"][i] = R(5) /\ IsReprintCandidate(i))
        /\ NRows(reprint_candidates) = Cardinality(CellSet(reprint_candidates, INDEX))
        /\ CellSet(reprint_candidates, INDEX) \subseteq CellSet(filtered_df, INDEX)

Wit_C10 ==
    /\ ReplenishmentDone
    /\ \E i, j \in 1..NRows(filtered_df) :
        /\ IsExampleC10(i)
        /\ IsReprintCandidate(i)
        /\ filtered_df[PRINT_STATUS][j] = "Out of Print"
        /\ Lt(filtered_df["Weeks Coverage"][j], R(6))
        /\ Lt(filtered_df[WAREHOUSE][j], filtered_df[FC_4WK][j])
        /\ ~IsReprintCandidate(j)

\* C11: for every reprint candidate, Recommended Reprint is
\* max(0, forecast_12wk * 1.5 - stock - warehouse), so it is never negative.
Thm_C11 ==
    ReplenishmentDone =>
        /\ NRows(reprint_candidates) > 0 => "Recommended Reprint" \in DOMAIN reprint_candidates
        /\ \A j \in 1..NRows(reprint_candidates) :
            /\ reprint_candidates["Recommended Reprint"][j] =
                 FMax(R(0), Sub(Sub(Mul(reprint_candidates[FC_12WK][j], <<3, 2>>),
                                    reprint_candidates[STOCK][j]),
                                reprint_candidates[WAREHOUSE][j]))
            /\ Ge(reprint_candidates["Recommended Reprint"][j], R(0))

Wit_C11 ==
    /\ ReplenishmentDone
    /\ \E j \in 1..NRows(reprint_candidates) :
        /\ reprint_candidates["Recommended Reprint"][j] = R(0)
        /\ Lt(Mul(reprint_candidates[FC_12WK][j], <<3, 2>>),
              Add(reprint_candidates[STOCK][j], reprint_candidates[WAREHOUSE][j]))

RedistributionDone ==
    /\ report_type = "Stock Replenishment"
    /\ pc \in {"scheduled", "footer", "crashed", "done"}

RedistributionRule(i) ==
    /\ Lt(Div(filtered_df[STOCK][i], FMax(Div(filtered_df[FC_4WK][i], R(4)), Tenth)), R(8))
    /\ Gt(filtered_df[WAREHOUSE][i], Mul(filtered_df[FC_4WK][i], <<1, 2>>))

IsRedistributionCandidate(i) ==
    filtered_df[INDEX][i] \in CellSet(redistribution_candidates, INDEX)

\* C12: a row of the filtered table is a redistribution candidate exactly
\* when stock / max(forecast_4wk / 4, 0.1) < 8 and warehouse > forecast_4wk *
\* 0.5, whatever its print status; each candidate is listed once.
Thm_C12 ==
    RedistributionDone =>
        /\ \A i \in 1..NRows(filtered_df) : IsRedistributionCandidate(i) <=> RedistributionRule(i)
        /\ NRows(redistribution_candidates) =
              Cardinality(CellSet(redistribution_candidates, INDEX))
        /\ CellSet(redistribution_candidates, INDEX) \subseteq CellSet(filtered_df, INDEX)

Wit_C12 ==
    /\ RedistributionDone
    /\ \E i, j \in 1..NRows(filtered_df) :
        /\ filtered_df[PRINT_STATUS][i] = "Out of Print"
        /\ IsRedistributionCandidate(i)
        /\ ~IsRedistributionCandidate(j)

\* C13: for every redistribution candidate, Recommended Transfer is
\* min(warehouse, max(0, forecast_4wk * 2 - stock)), so it lies in
\* 0..warehouse.
FMin(x, y) == IF Lt(y, x) THEN y ELSE x

Thm_C13 ==
    RedistributionDone =>
        /\ NRows(redistribution_candidates) > 0 =>
              "Recommended Transfer" \in DOMAIN redistribution_candidates
        /\ \A j \in 1..NRows(redistribution_candidates) :
            /\ redistribution_candidates["Recommended Transfer"][j] =
                 FMin(redistribution_candidates[WAREHOUSE][j],
                      FMax(R(0), Sub(Mul(redistribution_candidates[FC_4WK][j], R(2)),
                                     redistribution_candidates[STOCK][j])))
            /\ Ge(redistribution_candidates["Recommended Transfer"][j], R(0))
            /\ Le(redistribution_candidates["Recommended Transfer"][j],
                  redistribution_candidates[WAREHOUSE][j])

Wit_C13 ==
    /\ RedistributionDone
    /\ \E j \in 1..NRows(redistribution_candidates) :
        /\ redistribution_candidates["Recommended Transfer"][j] =
              redistribution_candidates[WAREHOUSE][j]
        /\ Gt(Sub(Mul(redistribution_candidates[FC_4WK][j], R(2)),
                  redistribution_candidates[STOCK][j]),
              redistribution_candidates[WAREHOUSE][j])

CustomDone == "Custom Report" \in rendered

\* C14: the Custom Report's Reprint Recommendation is
\* max(0, forecast_12wk * 1.2 - stock - warehouse) for every row, never
\* negative, and the column exists only when the stock, warehouse and
\* 12-week forecast columns are all selected.
Thm_C14 ==
    (CustomDone /\ "Reprint Recommendation" \in DOMAIN report_df) =>
        /\ {STOCK, WAREHOUSE, FC_12WK} \subseteq DOMAIN report_df
        /\ \A j \in 1..NRows(report_df) :
            /\ report_df["Reprint Recommendation"][j] =
                 FMax(R(0), Sub(Sub(Mul(report_df[FC_12WK][j], <<6, 5>>),
                                    report_df[STOCK][j]),
                                report_df[WAREHOUSE][j]))
            /\ Ge(report_df["Reprint Recommendation"][j], R(0))

Wit_C14 ==
    /\ CustomDone
    /\ "Reprint Recommendation" \in DOMAIN report_df
    /\ \E j, k \in 1..NRows(report_df) :
        /\ report_df["Reprint Recommendation"][j] = R(52)
        /\ report_df["Reprint Recommendation"][k] = R(0)

-----------------------------------------------------------------------------
(* More properties of classify_inventory_risk                              *)

DerivedCols ==
    {"weeks_until_stockout", "dk_warehouse_to_weekly_sales_ratio",
     "total_available_to_12wk_forecast", "stock_to_weekly_sales_ratio",
     "ordered_vs_forecasted", "risk_category"}

\* C15: classify_inventory_risk applied to its own output gives the same
\* table: the same five ratios and the same risk_category in every row.
Thm_C15 == Classified => classify_inventory_risk(df) = df

Wit_C15 ==
    /\ Classified
    /\ NRows(df) >= 2
    /\ \E i, j \in Rows : Category(i) # Category(j)
    /\ \E i \in Rows : HasMissing(i)

\* The table made of row i alone.
SingleRow(t, i) == [c \in RiskInputCols |-> <<t[c][i]>>]

\* C16: the derived cells of a row are those the function computes for that
\* row alone, whatever the other rows of the table are and wherever the row
\* stands.
Thm_C16 ==
    Classified =>
        \A i \in Rows :
            \A c \in DerivedCols :
                Cell(c, i) = classify_inventory_risk(SingleRow(df, i))[c][1]

Wit_C16 ==
    /\ Classified
    /\ NRows(df) >= 2
    /\ \E i, j \in Rows :
        /\ i < j
        /\ Category(i) = "overstocking_risk"
        /\ Category(j) = "high_stockout_risk"
        /\ Cell(FC_THIS, i) # Cell(FC_THIS, j)

ClassifyStep == pc = "loaded" /\ pc' = "classified"

\* C17 as stated: the caller's table is the same after the call as before.
Claim_C17 == [][ClassifyStep => df' = df]_vars

\* C17 amended: the call adds the five ratio columns and risk_category to the
\* caller's table and changes nothing else: every column the table had keeps
\* its cells and the rows keep their number and order.
Thm_C17 ==
    [][ClassifyStep =>
          /\ DOMAIN df' = DOMAIN df \cup DerivedCols
          /\ \A c \in DOMAIN df : df'[c] = df[c]]_vars

Wit_C17 ==
    /\ pc = "classified"
    /\ DerivedCols \subseteq DOMAIN df
    /\ \E i \in Rows : Cell(FC_THIS, i) = R(0) /\ Cell(SALES_LW, i) = R(0)

IsExampleC19(i) ==
    /\ Cell(STOCK, i) = R(300)
    /\ Cell(WAREHOUSE, i) = R(100)
    /\ Cell(FC_12WK, i) = R(10)

\* C19 as stated: stock 300, warehouse 100, forecast_12wk 10 gives ratio 40
\* and overstocking_risk whatever the other cells are.
Claim_C19 ==
    Classified =>
        \A i \in Rows :
            IsExampleC19(i) =>
                /\ Cell("total_available_to_12wk_forecast", i) = R(40)
                /\ Category(i) = "overstocking_risk"

\* C19 amended: such a row has ratio 40 and is overstocking_risk unless the
\* stockout rule holds for it (forecast this week above 150 and sales last
\* week above 25), in which case it is high_stockout_risk.
Thm_C19 ==
    Classified =>
        \A i \in Rows :
            IsExampleC19(i) =>
                /\ Cell("total_available_to_12wk_forecast", i) = R(40)
                /\ Rule1(i) <=> (Gt(Cell(FC_THIS, i), R(150)) /\ Gt(Cell(SALES_LW, i), R(25)))
                /\ Rule1(i) => Category(i) = "high_stockout_risk"
                /\ ~Rule1(i) => Category(i) = "overstocking_risk"

Wit_C19 ==
    /\ Classified
    /\ \E i \in Rows :
        /\ IsExampleC19(i)
        /\ Cell(FC_THIS, i) = R(200)
        /\ Cell(SALES_LW, i) = R(50)
        /\ Category(i) = "high_stockout_risk"

-----------------------------------------------------------------------------
(* Input validation in the inventory dashboard                             *)

\* C18: a table without the Reprint Date and Reprint Quantity columns is
\* accepted: no report of the dashboard ends in an error on it.
Claim_C18 ==
    (pc # "start" /\ OptionalCols \cap DOMAIN df = {} /\ ~HasBadDate(df)) =>
        /\ pc # "crashed"
        /\ \A m \in rendered : m # "exception: KeyError 'Reprint Date'"

\* C20: an unparsable date in one row is not fatal: the run goes on to the
\* filters and a report instead of aborting.
Claim_C20 ==
    HasBadDate(df) =>
        /\ pc # "crashed"
        /\ "exception: Pub Date" \notin rendered

-----------------------------------------------------------------------------
(* The footer of the risk dashboard                                        *)

\* C21: every row labelled overstocking_risk has more than 20 weeks of total
\* inventory relative to forecast demand: its
\* total_available_to_12wk_forecast is above 20, as the footer says.
Claim_C21 ==
    Classified =>
        \A i \in Rows :
            Category(i) = "overstocking_risk" =>
                Gt(Cell("total_available_to_12wk_forecast", i), R(20))

-----------------------------------------------------------------------------
(* helper_functions.py: missing_values_summary                             *)

\* The dashboards' variables, which the other programs never touch.
DashIdle ==
    /\ high_risk_books = NoFrame
    /\ overstock_books = NoFrame
    /\ filtered_df = NoFrame
    /\ report_type = "none"
    /\ brand_health = NoFrame
    /\ reprint_candidates = NoFrame
    /\ redistribution_candidates = NoFrame
    /\ report_df = NoFrame
    /\ rendered = {}

MaxSummaryRows == 10

\* The columns of the analysed table, in table order.
SummaryColumns == <<"A", "B", "C">>

\* Tables of 0..MaxSummaryRows rows; every column has any number of
\* missing cells, at the top or the bottom of "A", at the bottom of "B" and
\* at the top of "C".
SummaryTables ==
    LET cols == {SummaryColumns[j] : j \in DOMAIN SummaryColumns}
        \* a column of n cells of which k are missing
        NullPattern(n, k, top) ==
            [i \in 1..n |->
                IF (top /\ i <= k) \/ (~top /\ i > n - k) THEN NaN ELSE R(1)]
    IN  UNION {{[c \in cols |->
                    NullPattern(n, k[c], IF c = "A" THEN top ELSE c = "C")] :
                    k \in [cols -> 0..n], top \in BOOLEAN} :
               n \in 0..MaxSummaryRows}

\* Series.isnull().sum() of one column
RECURSIVE IsNullSum(_)
IsNullSum(s) ==
    IF s = <<>> THEN 0
    ELSE (IF IsNaN(Head(s)) THEN 1 ELSE 0) + IsNullSum(Tail(s))

\* Mutant: >= in place of > in the filter.
SignificantMask_Ge(ms) ==
    SOr(SGt(ms["Percentage"], R(70)), SEq(ms["Percentage"], R(70)))

\* line 115
SignificantMask(ms) == SGt(ms["Percentage"], R(70))

\* lines 103-118: the summaries the function may return (rows of equal
\* percentage in any order)
missing_values_summary(t) ==
    LET \* line 103
        missing_count ==
            [j \in DOMAIN SummaryColumns |-> R(IsNullSum(t[SummaryColumns[j]]))]
        \* line 106: (count / len(df)) * 100
        missing_percentage == SScale(SOver(missing_count, R(NRows(t))), R(100))
        ms == [c \in {INDEX, "Missing Values", "Percentage"} |->
                  CASE c = INDEX -> SummaryColumns
                    [] c = "Missing Values" -> missing_count
                    [] c = "Percentage" -> missing_percentage]
        kept == BoolIndex(ms, SignificantMask(ms))
    IN  {Permute(kept, p) : p \in SortedPerms(kept["Percentage"], FALSE)}

InitMissing ==
    /\ pc = "start"
    /\ df \in SummaryTables
    /\ DashIdle
    /\ AuxIdle

MissingValuesSummary ==
    /\ pc = "start"
    /\ missing_summary' \in missing_values_summary(df)
    /\ pc' = "done"
    /\ UNCHANGED <<df, riskVars, invVars, rendered, corr, corr_mask,
                   uploaded_file, OPENAI_API_KEY, db, agent_db, remove_failed,
                   excel>>

NextMissing == MissingValuesSummary

SpecMissing == InitMissing /\ [][NextMissing]_vars

\* The number of missing cells of column c of the analysed table.
MissingIn(c) == Cardinality({i \in 1..NRows(df) : IsNaN(df[c][i])})

\* C22: the summary lists exactly the columns with more than 70% of their
\* cells missing, each once, with its count of missing cells and its
\* percentage, in descending order of percentage; a column with 70% or less
\* is not listed.
Thm_C22 ==
    pc = "done" =>
        LET ms == missing_summary
            n == NRows(df)
            m == NRows(ms)
        IN  /\ DOMAIN ms = {INDEX, "Missing Values", "Percentage"}
            /\ {ms[INDEX][j] : j \in 1..m} =
                   {c \in DOMAIN df : 100 * MissingIn(c) > 70 * n}
            /\ \A j, k \in 1..m : j # k => ms[INDEX][j] # ms[INDEX][k]
            /\ \A j \in 1..m :
                /\ ms["Missing Values"][j] = R(MissingIn(ms[INDEX][j]))
                /\ ms["Percentage"][j] = Norm(100 * MissingIn(ms[INDEX][j]), n)
            /\ \A j, k \in 1..m : j < k => ~Lt(ms["Percentage"][j], ms["Percentage"][k])

\* A column with exactly 70% missing is left out while two columns above
\* 70% are listed, the fuller one first.
Wit_C22 ==
    /\ pc = "done"
    /\ NRows(df) > 0
    /\ \E c \in DOMAIN df : 100 * MissingIn(c) = 70 * NRows(df)
    /\ NRows(missing_summary) = 2
    /\ Gt(missing_summary["Percentage"][1], missing_summary["Percentage"][2])

-----------------------------------------------------------------------------
(* helper_functions.py: plot_correlation_matrix                            *)

MaxSamples == 3

\* corr.columns, in table order
feature_names == <<"A", "B", "C">>

\* Numeric tables of 1..MaxSamples rows: "A" counts up or is constant, "B"
\* and "C" hold any small whole numbers.
CorrTables ==
    UNION {{[c \in {feature_names[j] : j \in DOMAIN feature_names} |->
                CASE c = "A" -> [i \in 1..n |-> IF ramp THEN i - 1 ELSE 1]
                  [] c = "B" -> b
                  [] c = "C" -> cc] :
                ramp \in BOOLEAN, b \in [1..n -> 0..3], cc \in [1..n -> 0..1]} :
           n \in 1..MaxSamples}

RECURSIVE SumProd(_, _)
SumProd(x, y) ==
    IF x = <<>> THEN 0 ELSE Head(x) * Head(y) + SumProd(Tail(x), Tail(y))

\* n times the sum of the products of the deviations from the means
CoMoment(x, y) ==
    LET ones == [i \in DOMAIN x |-> 1]
    IN  Len(x) * SumProd(x, y) - SumProd(x, ones) * SumProd(y, ones)

\* Pearson's r of two columns, kept as its sign and its square (r itself is
\* not rational); NaN when a column has no variance.
Pearson(x, y) ==
    LET sxy == CoMoment(x, y)
        sxx == CoMoment(x, x)
        syy == CoMoment(y, y)
    IN  IF sxx = 0 \/ syy = 0 THEN [sign |-> 0, sq |-> NaN]
        ELSE [sign |-> IF sxy > 0 THEN 1 ELSE IF sxy < 0 THEN -1 ELSE 0,
              sq |-> Norm(sxy * sxy, sxx * syy)]

\* line 29: df.corr()
Corr(t) ==
    [i \in DOMAIN feature_names |->
        [j \in DOMAIN feature_names |->
            Pearson(t[feature_names[i]], t[feature_names[j]])]]

\* np.abs(r) < c for a positive c; False for NaN
AbsLt(r, c) == Lt(r.sq, Mul(c, c))

\* line 12: threshold: float=0.8
DefaultThreshold == <<4, 5>>

\* lines 36-40: np.triu(...) is True on and above the diagonal
MaskOf(c, threshold) ==
    [i \in DOMAIN c |-> [j \in DOMAIN c[i] |-> i <= j /\ AbsLt(c[i][j], threshold)]]

InitCorr ==
    /\ pc = "start"
    /\ df \in CorrTables
    /\ DashIdle
    /\ AuxIdle

\* plot_correlation_matrix(df): the call with the default arguments
PlotCorrelationMatrix ==
    /\ pc = "start"
    /\ corr' = Corr(df)
    /\ corr_mask' = MaskOf(Corr(df), DefaultThreshold)
    /\ pc' = "plotted"
    /\ UNCHANGED <<df, riskVars, invVars, rendered, missing_summary,
                   uploaded_file, OPENAI_API_KEY, db, agent_db, remove_failed,
                   excel>>

NextCorr == PlotCorrelationMatrix

SpecCorr == InitCorr /\ [][NextCorr]_vars

\* The cell is drawn and annotated (lines 50-59): it is not masked.
Shown(i, j) == ~corr_mask[i][j]

\* The absolute correlation is above c.
AbsGt(r, c) == Gt(r.sq, Mul(c, c))

\* C23: with the default arguments every cell below the diagonal is shown,
\* and a cell above the diagonal whose correlation is defined is shown
\* exactly when the absolute correlation is greater than 0.6.
Claim_C23 ==
    pc = "plotted" =>
        \A i, j \in DOMAIN feature_names :
            /\ i > j => Shown(i, j)
            /\ (i < j /\ ~IsNaN(corr[i][j].sq)) =>
                   (Shown(i, j) <=> AbsGt(corr[i][j], <<3, 5>>))

-----------------------------------------------------------------------------
(* Control flow of the inventory dashboard script                          *)

\* C24: a report section or the footer is rendered only if a file was
\* uploaded, loading raised no error and the filtered table has at least
\* one row; a run that renders no report has stopped right after the info,
\* the error or the 'No data matches' message; at most one of the five
\* report types is rendered in a run.
Claim_C24 ==
    /\ (rendered \cap ReportTypes # {} \/ "footer" \in rendered) =>
           /\ df # NoFrame
           /\ "error: loading" \notin rendered
           /\ NRows(filtered_df) >= 1
    /\ (pc \in {"stopped", "crashed"} /\ rendered \cap ReportTypes = {}) =>
           /\ pc = "stopped"
           /\ rendered \in {{"info: upload a file"}, {"error: loading"},
                            {"warning: no data"}}
    /\ Cardinality(rendered \cap ReportTypes) <= 1

-----------------------------------------------------------------------------
(* chat_bot.py: runs of main()                                             *)
(*                                                                         *)
(* df is st.session_state.df and db is the content of the file             *)
(* temp_database.db; both outlive a run.  agent_db is the table the agent  *)
(* queried in the current run, if it was invoked.                          *)

\* The uploaded tables, by content
BotTables == {"table 1", "table 2", "table 3"}

\* st.file_uploader returns None or a file; the file name check of
\* load_data is case-sensitive, so "DATA.CSV" is an unsupported format.
UploadedFiles ==
    {NoUploadedFile}
        \cup [name : {"data.csv", "data.xlsx", "DATA.CSV"}, table : BotTables]

\* Mutant: if_exists='append', the rows of an existing table are kept.
create_temp_db_Append(file, table) ==
    IF file \in {NoFile, "(empty database)"} THEN table ELSE file

\* lines 28-32: the content of the database file after
\* to_sql(..., if_exists='replace')
create_temp_db(file, table) == table

InitBot ==
    /\ pc = "start"
    /\ df = "None"
    /\ DashIdle
    /\ corr = NoFrame
    /\ corr_mask = NoFrame
    /\ missing_summary = NoFrame
    /\ excel = NoFrame
    /\ uploaded_file \in UploadedFiles
    /\ OPENAI_API_KEY \in BOOLEAN
    /\ db = NoFile
    /\ agent_db = NoFile
    /\ remove_failed = FALSE

\* line 60: nothing uploaded
NoFileUploaded ==
    /\ pc = "start"
    /\ uploaded_file = NoUploadedFile
    /\ pc' = "cleanup"
    /\ UNCHANGED <<df, rendered, uploaded_file, db, agent_db, remove_failed>>
    /\ UNCHANGED <<riskVars, invVars, corr, corr_mask, missing_summary, excel,
                   OPENAI_API_KEY>>

\* lines 40-42, 62: unsupported format, load_data returns None
LoadUnsupported ==
    /\ pc = "start"
    /\ uploaded_file # NoUploadedFile
    /\ uploaded_file.name = "DATA.CSV"
    /\ df' = "None"
    /\ rendered' = rendered \cup {"error: unsupported file format"}
    /\ pc' = "cleanup"
    /\ UNCHANGED <<uploaded_file, db, agent_db, remove_failed>>
    /\ UNCHANGED <<riskVars, invVars, corr, corr_mask, missing_summary, excel,
                   OPENAI_API_KEY>>

\* lines 36-39, 62: the file is read
LoadOk ==
    /\ pc = "start"
    /\ uploaded_file # NoUploadedFile
    /\ uploaded_file.name \in {"data.csv", "data.xlsx"}
    /\ df' = uploaded_file.table
    /\ rendered' = rendered \cup {"success: data loaded"}
    /\ pc' = "loaded"
    /\ UNCHANGED <<uploaded_file, db, agent_db, remove_failed>>
    /\ UNCHANGED <<riskVars, invVars, corr, corr_mask, missing_summary, excel,
                   OPENAI_API_KEY>>

\* lines 37, 39: read_csv or read_excel raises; nothing in main() catches
\* it, the run ends without reaching the cleanup
LoadRaises ==
    /\ pc = "start"
    /\ uploaded_file # NoUploadedFile
    /\ uploaded_file.name \in {"data.csv", "data.xlsx"}
    /\ pc' = "aborted"
    /\ UNCHANGED <<df, rendered, uploaded_file, db, agent_db, remove_failed>>
    /\ UNCHANGED <<riskVars, invVars, corr, corr_mask, missing_summary, excel,
                   OPENAI_API_KEY>>

\* line 70
CreateTempDb ==
    /\ pc = "loaded"
    /\ db' = create_temp_db(db, df)
    /\ pc' = "db_created"
    /\ UNCHANGED <<df, rendered, uploaded_file, agent_db, remove_failed>>
    /\ UNCHANGED <<riskVars, invVars, corr, corr_mask, missing_summary, excel,
                   OPENAI_API_KEY>>

\* lines 30-31: to_sql raises after connect has created the file, which
\* is empty if it did not exist
CreateTempDbRaises ==
    /\ pc = "loaded"
    /\ db' = IF db = NoFile THEN "(empty database)" ELSE db
    /\ pc' = "aborted"
    /\ UNCHANGED <<df, rendered, uploaded_file, agent_db, remove_failed>>
    /\ UNCHANGED <<riskVars, invVars, corr, corr_mask, missing_summary, excel,
                   OPENAI_API_KEY>>

\* lines 73, 113-114
NoApiKey ==
    /\ pc = "db_created"
    /\ ~OPENAI_API_KEY
    /\ rendered' = rendered \cup {"warning: API key"}
    /\ pc' = "cleanup"
    /\ UNCHANGED <<df, uploaded_file, db, agent_db, remove_failed>>
    /\ UNCHANGED <<riskVars, invVars, corr, corr_mask, missing_summary, excel,
                   OPENAI_API_KEY>>

\* lines 74-101: the agent is built and the form shown; nothing submitted
NoQuestion ==
    /\ pc = "db_created"
    /\ OPENAI_API_KEY
    /\ pc' = "cleanup"
    /\ UNCHANGED <<df, rendered, uploaded_file, db, agent_db, remove_failed>>
    /\ UNCHANGED <<riskVars, invVars, corr, corr_mask, missing_summary, excel,
                   OPENAI_API_KEY>>

\* lines 101-109: the agent runs on the database and answers
AgentRun ==
    /\ pc = "db_created"
    /\ OPENAI_API_KEY
    /\ agent_db' = db
    /\ rendered' = rendered \cup {"Answer"}
    /\ pc' = "cleanup"
    /\ UNCHANGED <<df, uploaded_file, db, remove_failed>>
    /\ UNCHANGED <<riskVars, invVars, corr, corr_mask, missing_summary, excel,
                   OPENAI_API_KEY>>

\* lines 74-112: building the agent raises, or the agent raises after it
\* was invoked; the exception is caught and shown
AgentError ==
    /\ pc = "db_created"
    /\ OPENAI_API_KEY
    /\ agent_db' \in {agent_db, db}
    /\ rendered' = rendered \cup {"error: An error occurred"}
    /\ pc' = "cleanup"
    /\ UNCHANGED <<df, uploaded_file, db, remove_failed>>
    /\ UNCHANGED <<riskVars, invVars, corr, corr_mask, missing_summary, excel,
                   OPENAI_API_KEY>>

\* The script run is interrupted while the agent works (the user interacts
\* and the dashboard shell reruns the script): main() does not return.
Interrupted ==
    /\ pc = "db_created"
    /\ OPENAI_API_KEY
    /\ agent_db' \in {agent_db, db}
    /\ pc' = "aborted"
    /\ UNCHANGED <<df, rendered, uploaded_file, db, remove_failed>>
    /\ UNCHANGED <<riskVars, invVars, corr, corr_mask, missing_summary, excel,
                   OPENAI_API_KEY>>

\* lines 117-121: the file is removed if it exists; a failing os.remove is
\* swallowed
Cleanup ==
    /\ pc = "cleanup"
    /\ \/ /\ db' = NoFile
          /\ UNCHANGED remove_failed
       \/ /\ db # NoFile
          /\ remove_failed' = TRUE
          /\ UNCHANGED db
    /\ pc' = "returned"
    /\ UNCHANGED <<df, rendered, uploaded_file, agent_db>>
    /\ UNCHANGED <<riskVars, invVars, corr, corr_mask, missing_summary, excel,
                   OPENAI_API_KEY>>

\* The next run of the script: the session state and the file system are
\* kept, the uploader returns what it holds now
Rerun ==
    /\ pc \in {"returned", "aborted"}
    /\ uploaded_file' \in UploadedFiles
    /\ agent_db' = NoFile
    /\ remove_failed' = FALSE
    /\ rendered' = {}
    /\ pc' = "start"
    /\ UNCHANGED <<df, db>>
    /\ UNCHANGED <<riskVars, invVars, corr, corr_mask, missing_summary, excel,
                   OPENAI_API_KEY>>

NextBot ==
    \/ NoFileUploaded \/ LoadUnsupported \/ LoadOk \/ LoadRaises
    \/ CreateTempDb \/ CreateTempDbRaises
    \/ NoApiKey \/ NoQuestion \/ AgentRun \/ AgentError \/ Interrupted
    \/ Cleanup \/ Rerun

SpecBot == InitBot /\ [][NextBot]_vars

\* C25: the agent queries only a database that holds the table uploaded in
\* the current run, and when a run of main() has returned the database file
\* does not exist, unless its removal failed.
Thm_C25 ==
    /\ agent_db # NoFile =>
           /\ uploaded_file # NoUploadedFile
           /\ agent_db = uploaded_file.table
           /\ agent_db = df
    /\ (pc = "returned" /\ ~remove_failed) => db = NoFile

\* A run in which the agent was invoked has returned and the file is gone.
Wit_C25 ==
    /\ pc = "returned"
    /\ agent_db # NoFile
    /\ ~remove_failed
    /\ db = NoFile

-----------------------------------------------------------------------------
(* dk_airflow.py: generate_report                                          *)

\* Rows of inventory_data_with_risk.csv: the three columns the job reads
AirflowRows ==
    {[c \in {STOCK, WAREHOUSE, FC_4WK} |->
         CASE c = STOCK -> s
           [] c = WAREHOUSE -> w
           [] c = FC_4WK -> f4] : s \in {R(0), R(10), R(30), NaN},
                                 w \in {R(10), R(50), NaN},
                                 f4 \in {R(0), R(40), NaN}}

\* Tables of 1..MaxRows rows: one row is any of AirflowRows, at any
\* position, the others are filler rows.
AirflowTables ==
    LET filler == {r \in AirflowRows : /\ r[STOCK] \in {R(0), R(30)}
                                        /\ r[WAREHOUSE] = R(10)
                                        /\ r[FC_4WK] = R(40)}
    IN  {[c \in DOMAIN r |-> [i \in 1..n |-> IF i = p THEN r[c] ELSE o[i][c]]] :
            <<n, p, r, o>> \in
                {q \in (1..MaxRows) \X (1..MaxRows) \X AirflowRows
                          \X [1..MaxRows -> filler] : q[2] <= q[1]}}

\* Mutant: <= in place of <.
StockRiskLabel_Le(s, w, f4) == IF Le(Add(s, w), f4) THEN "High" ELSE "Low"

\* lines 9-10: the lambda applied to one row
StockRiskLabel(s, w, f4) == IF Lt(Add(s, w), f4) THEN "High" ELSE "Low"

InitAirflow ==
    /\ pc = "start"
    /\ df = NoFrame
    /\ DashIdle
    /\ AuxIdle

\* line 7
ReadCsv ==
    /\ pc = "start"
    /\ df' \in AirflowTables
    /\ pc' = "read"
    /\ UNCHANGED <<riskVars, invVars, rendered, auxVars>>

\* lines 8-12: df.apply(..., axis=1) labels every row
ApplyStockRisk ==
    /\ pc = "read"
    /\ df' = SetCol(df, "Stock Risk",
                    [i \in 1..NRows(df) |->
                        StockRiskLabel(df[STOCK][i], df[WAREHOUSE][i], df[FC_4WK][i])])
    /\ pc' = "labelled"
    /\ UNCHANGED <<riskVars, invVars, rendered, auxVars>>

\* line 13
ToExcel ==
    /\ pc = "labelled"
    /\ excel' = df
    /\ pc' = "done"
    /\ UNCHANGED <<df, riskVars, invVars, rendered, corr, corr_mask,
                   missing_summary, uploaded_file, OPENAI_API_KEY, db, agent_db,
                   remove_failed>>

NextAirflow == ReadCsv \/ ApplyStockRisk \/ ToExcel

SpecAirflow == InitAirflow /\ [][NextAirflow]_vars

\* Row i has its three inputs and stock + warehouse is below the forecast.
BelowForecast(t, i) ==
    LET s == t[STOCK][i]
        w == t[WAREHOUSE][i]
        f == t[FC_4WK][i]
    IN  /\ ~IsNaN(s) /\ ~IsNaN(w) /\ ~IsNaN(f)
        /\ (s[1] * w[2] + w[1] * s[2]) * f[2] < f[1] * s[2] * w[2]

MissingInput(t, i) ==
    IsNaN(t[STOCK][i]) \/ IsNaN(t[WAREHOUSE][i]) \/ IsNaN(t[FC_4WK][i])

\* C26: every row's Stock Risk is High or Low; it is High exactly when
\* stock plus warehouse units is below the 4-week forecast; a row with a
\* missing stock, warehouse or forecast cell is Low; the written spreadsheet
\* holds these labels.
Thm_C26 ==
    /\ pc \in {"labelled", "done"} =>
        /\ Len(df["Stock Risk"]) = NRows(df)
        /\ \A i \in 1..NRows(df) :
            /\ df["Stock Risk"][i] \in {"High", "Low"}
            /\ df["Stock Risk"][i] = "High" <=> BelowForecast(df, i)
            /\ MissingInput(df, i) => df["Stock Risk"][i] = "Low"
    /\ pc = "done" => excel = df

\* A written report with a High row and a Low row that has a missing cell
\* or whose stock plus warehouse equals the forecast.
Wit_C26 ==
    /\ pc = "done"
    /\ \E i, j \in 1..NRows(excel) :
        /\ excel["Stock Risk"][i] = "High"
        /\ excel["Stock Risk"][j] = "Low"
        /\ \/ MissingInput(excel, j)
           \/ Add(excel[STOCK][j], excel[WAREHOUSE][j]) = excel[FC_4WK][j]

====
